---- MODULE Spec2Model ----
(***************************************************************************)
(* generate-picture-bot (src/bot.py): the image generation job poller      *)
(* generate_image_from_prompt, the prompt rewriting step                   *)
(* rewrite_prompt_with_qwen and the message handler handle_message.        *)
(*                                                                         *)
(* Strings are sequences of Unicode code points.  An await is a step       *)
(* boundary: the coroutine is suspended between the call and its result.   *)
(***************************************************************************)
EXTENDS Integers, Sequences, FiniteSets, TLC

\* ------------------------------------------------------------------------
\* Bounds of the environment
\* ------------------------------------------------------------------------
\* longest results list the backend returns with a SUCCEEDED status
MaxResults == 2
\* how many times the slow-queue reply_text may raise in one run
MaxSendFailures == 2
\* longest incoming message text, in code points
MaxTextLen == 2

\* ------------------------------------------------------------------------
\* Program constants
\* ------------------------------------------------------------------------
max_wait == 180
poll_interval == 4
SlowThreshold == 30
HTTP_OK == 200

\* a status code other than 200
ErrorCodes == {400}

\* Python's None, and the marker of a missing dictionary key / missing value
NoneVal == "None"
Absent == "absent"

\* URLs the backend may put in a result
Urls == {"u1", "u2"}

\* task_status values of the backend; anything else is read as it comes
Statuses == {"PENDING", "RUNNING", "SUCCEEDED", "FAILED", "CANCELED"}

\* Return sites of generate_image_from_prompt, by source line; 0: not returned
RetSubmitError == 82
RetUrl == 121
RetJobFailed == 125
RetTimeout == 129
RetException == 133

VARIABLES
    pc,                 \* position of the coroutine
    prompt,             \* argument of generate_image_from_prompt
    submitted,          \* prompts passed to ImageSynthesis.async_call, in order
    resp,               \* answer of async_call (NoSubmit before the call)
    elapsed,            \* local elapsed
    last_status,        \* local last_status
    notification_sent,  \* local notification_sent
    status_resp,        \* local status_resp: the last response fetch returned
    result,             \* the value returned to the caller (Absent: none yet)
    returnSite,         \* source line of the return statement taken, 0 before
    escaped,            \* an exception propagated out of the function
    raisedAt,           \* where the exception that ended the run was raised
    sleeps,             \* calls of asyncio.sleep
    fetches,            \* calls of ImageSynthesis.fetch
    slowCalls,          \* calls of reply_text with the slow-queue message
    sendFailures,       \* slow-queue reply_text calls that raised
    timeoutCalls,       \* calls of reply_text with the timeout message
    allPending,         \* every fetch so far returned 200 with task_status PENDING
    noMiss,             \* every fetch so far returned 200 with an output
    prev,               \* outcome of the previous call: <<returnSite, result>>
    raw,                \* update.message.text of the message being handled
    text,               \* local text of handle_message
    enhanced_prompt,    \* local enhanced_prompt of handle_message
    rewriteCalls,       \* calls of Generation.call
    rewriteAnswer,      \* the answer of Generation.call
    replies,            \* messages handle_message sent with reply_text, in order
    handlerRaised,      \* where an exception that left handle_message was raised
    fetchRaised,        \* the last call of fetch raised
    allMiss,            \* every fetch so far raised or returned a non-200 code
    statusRecords,      \* records written by logging.info at line 110
    trackedRunning,     \* last_status has been RUNNING in this run
    backendPhase,       \* the backend's answers: "fresh", "running" once it answered
                        \* RUNNING, "regressed" once it answered PENDING after that
    script,             \* statuses a mocked backend answers, poll by poll (<<>>: no mock)
    logLevel,           \* level of the root logger
    cancelled,          \* a cancellation was delivered to the request task
    frames,             \* locals of the calls running concurrently, by storage cell
    solo,               \* what each concurrent call's locals are when it runs alone
    running             \* the concurrent call that took the last step

vars == <<pc, prompt, submitted, resp, elapsed, last_status, notification_sent,
          status_resp, result, returnSite, escaped, raisedAt, sleeps, fetches,
          slowCalls, sendFailures, timeoutCalls, allPending, noMiss, prev,
          raw, text, enhanced_prompt, rewriteCalls, rewriteAnswer, replies,
          handlerRaised, fetchRaised, allMiss, statusRecords, trackedRunning,
          backendPhase, script, logLevel, cancelled, frames, solo, running>>

\* the state of handle_message, which generate_image_from_prompt never touches
handlerVars == <<raw, text, enhanced_prompt, rewriteCalls, rewriteAnswer, replies,
                 handlerRaised>>

\* what the polls of generate_image_from_prompt leave behind for an observer
pollObs == <<fetchRaised, allMiss, statusRecords, trackedRunning, backendPhase>>

\* the surroundings of a call: the mocked backend, the logger, the request
\* task and the calls running beside it
harnessVars == <<script, logLevel, cancelled, frames, solo, running>>

\* ------------------------------------------------------------------------
\* The remote services' answers
\* ------------------------------------------------------------------------
RECURSIVE SeqsUpTo(_, _)
SeqsUpTo(S, n) ==
    IF n = 0 THEN {<<>>}
    ELSE LET shorter == SeqsUpTo(S, n - 1)
         IN  shorter \cup {Append(s, x) : s \in {t \in shorter : Len(t) = n - 1}, x \in S}

\* what ImageSynthesis.async_call can do: raise, or answer with a status code
\* and, when 200, an output that holds a task_id or lacks it
SubmitAnswers ==
    {[raised |-> TRUE, status_code |-> 0, task_id |-> Absent],
     [raised |-> FALSE, status_code |-> HTTP_OK, task_id |-> Absent],
     [raised |-> FALSE, status_code |-> HTTP_OK, task_id |-> "t1"]}
    \cup {[raised |-> FALSE, status_code |-> c, task_id |-> Absent] : c \in ErrorCodes}

\* a results list: each entry holds a url or lacks the key
ResultLists == SeqsUpTo(Urls \cup {Absent}, MaxResults)

\* what ImageSynthesis.fetch can answer (besides raising): a non-200 code, a
\* 200 without output, or a 200 with an output whose task_status is one of
\* Statuses or missing; only a SUCCEEDED output carries results
FetchAnswers ==
    {[status_code |-> HTTP_OK, output |-> Absent, task_status |-> Absent, results |-> <<>>]}
    \cup {[status_code |-> c, output |-> Absent, task_status |-> Absent, results |-> <<>>] :
            c \in ErrorCodes}
    \cup {[status_code |-> HTTP_OK, output |-> "dict", task_status |-> s, results |-> <<>>] :
            s \in (Statuses \ {"SUCCEEDED"}) \cup {Absent}}
    \cup {[status_code |-> HTTP_OK, output |-> "dict", task_status |-> "SUCCEEDED", results |-> r] :
            r \in ResultLists}

\* ------------------------------------------------------------------------
\* generate_image_from_prompt
\* ------------------------------------------------------------------------
\* the handler of line 131 with the submit call left outside the try block
OuterCatches_NotSubmit(cls, site) == cls = "Exception" /\ site # "submit"

\* the handler of line 131 with the timeout message sent after the try block
OuterCatches_NotTimeoutSend(cls, site) == cls = "Exception" /\ site # "timeout_notify"

\* except Exception (line 131): the handler around the whole body
OuterCatches(cls, site) == cls = "Exception"

\* an exception raised at `site` outside the inner handlers
RaiseOuter(cls, site) ==
    /\ raisedAt' = site
    /\ pc' = "done"
    /\ IF OuterCatches(cls, site)
       THEN /\ result' = NoneVal
            /\ returnSite' = RetException
            /\ escaped' = FALSE
       ELSE /\ result' = Absent
            /\ returnSite' = 0
            /\ escaped' = TRUE

Return(value, site) ==
    /\ raisedAt' = raisedAt
    /\ pc' = "done"
    /\ result' = value
    /\ returnSite' = site
    /\ escaped' = FALSE

\* resp.status_code != 200 (line 80)
SubmitRejected(r) == r.status_code # HTTP_OK

\* lines 72-91: submit the job and set up the loop
Submit ==
    /\ pc = "submit"
    /\ UNCHANGED <<handlerVars, harnessVars, pollObs>>
    /\ submitted' = Append(submitted, prompt)
    /\ \E r \in SubmitAnswers :
        /\ resp' = r
        /\ IF r.raised THEN RaiseOuter("Exception", "submit")
           ELSE IF SubmitRejected(r) THEN Return(NoneVal, RetSubmitError)
           ELSE IF r.task_id = Absent THEN RaiseOuter("Exception", "task_id")
           ELSE pc' = "loop" /\ UNCHANGED <<result, returnSite, escaped, raisedAt>>
    /\ elapsed' = 0
    /\ last_status' = NoneVal
    /\ notification_sent' = FALSE
    /\ UNCHANGED <<prompt, status_resp, sleeps, fetches, slowCalls, sendFailures,
                   timeoutCalls, allPending, noMiss, prev>>

\* the loop test written with <=
LoopContinues_Inclusive(e) == e <= max_wait

\* while elapsed < max_wait (line 93)
LoopContinues(e) == e < max_wait

\* lines 93-94: the loop test passes and the coroutine sleeps
\* elapsed advanced by two intervals at a poll
Advance_Twice(e) == e + poll_interval + poll_interval

\* elapsed += poll_interval (line 95), before the fetch is tried
Advance(e) == e + poll_interval

Sleep ==
    /\ pc = "loop"
    /\ UNCHANGED <<handlerVars, harnessVars, pollObs>>
    /\ LoopContinues(elapsed)
    /\ pc' = "sleeping"
    /\ sleeps' = sleeps + 1
    /\ UNCHANGED <<prompt, submitted, resp, elapsed, last_status, notification_sent,
                   status_resp, result, returnSite, escaped, raisedAt, fetches, slowCalls,
                   sendFailures, timeoutCalls, allPending, noMiss, prev>>

\* status_resp.output.get('task_status', 'UNKNOWN') (line 107)
\* a missing task_status read as PENDING
TaskStatus_DefaultPending(r) == IF r.task_status = Absent THEN "PENDING" ELSE r.task_status

TaskStatus(r) == IF r.task_status = Absent THEN "UNKNOWN" ELSE r.task_status

\* the condition of line 113
\* the slow-queue test without its status clause
ShouldNotify_AnyStatus(e, sent, task_status) ==
    e >= SlowThreshold /\ ~sent

ShouldNotify(e, sent, task_status) ==
    e >= SlowThreshold /\ ~sent /\ task_status = "PENDING"

\* the url of the last result instead of the first
ResultUrl_Last(r) == r.results[Len(r.results)]

\* status_resp.output['results'][0]['url'] (line 121), on a non-empty list
ResultUrl(r) == r.results[1]

\* the SUCCEEDED branch never taken
IsSucceeded_Never(task_status) == FALSE

\* task_status == 'SUCCEEDED' (line 120) and task_status == 'FAILED' (line 122)
IsSucceeded(task_status) == task_status = "SUCCEEDED"

\* the FAILED test with a misspelt status
IsFailed_Misspelt(task_status) == task_status = "FAILURE"

\* every status that is not known to be live read as a failure
IsFailed_NotLive(task_status) == task_status \notin {"PENDING", "RUNNING", "SUCCEEDED"}

IsFailed(task_status) == task_status = "FAILED"

\* the FAILED branch returning the backend's message instead of None
FailedValue_Message(r) == "Unknown error"

\* return None (line 125), after the backend's message was logged
FailedValue(r) == NoneVal

\* lines 120-125, reached with the response r of this poll: return the url,
\* return None on FAILED, or go round the loop
TerminalCheck(r) ==
    LET task_status == TaskStatus(r) IN
    IF IsSucceeded(task_status)
    THEN IF Len(r.results) = 0 THEN RaiseOuter("Exception", "results")
         ELSE IF ResultUrl(r) = Absent THEN RaiseOuter("Exception", "url")
         ELSE Return(ResultUrl(r), RetUrl)
    ELSE IF IsFailed(task_status) THEN Return(FailedValue(r), RetJobFailed)
    ELSE pc' = "loop" /\ UNCHANGED <<result, returnSite, escaped, raisedAt>>

\* the answer a mocked backend gives for the status st
ScriptedAnswer(st) ==
    [status_code |-> HTTP_OK, output |-> "dict", task_status |-> st,
     results |-> IF st = "SUCCEEDED" THEN <<"u1">> ELSE <<>>]

\* a mocked fetch that raises instead of answering
RaiseMark == "raise"

\* the nth entry of a mock's script; its last entry is repeated from then on
ScriptEntry(sc, n) == sc[IF n <= Len(sc) THEN n ELSE Len(sc)]

\* fetch raises at the nth poll: possible at any poll without a mock, scripted
\* with one
MockedRaise(sc, n) == IF sc = <<>> THEN TRUE ELSE ScriptEntry(sc, n) = RaiseMark

\* what fetch can answer at the nth poll: anything without a mock, the nth
\* status of the script with one
MockedAnswers(sc, n) ==
    IF sc = <<>> THEN FetchAnswers
    ELSE IF ScriptEntry(sc, n) = RaiseMark THEN {}
    ELSE {ScriptedAnswer(ScriptEntry(sc, n))}

\* the backend's answers so far, with the answer r
NextPhase(phase, r) ==
    IF r.status_code # HTTP_OK \/ r.output = Absent THEN phase
    ELSE IF r.task_status = "RUNNING" /\ phase = "fresh" THEN "running"
    ELSE IF r.task_status = "PENDING" /\ phase = "running" THEN "regressed"
    ELSE phase

\* the status line written at every poll
StatusChanged_Always(task_status, last) == TRUE

\* task_status != last_status (line 109)
StatusChanged(task_status, last) == task_status # last

\* logging.info writes a record when the root logger's level lets it
InfoEnabled(level) == level = "INFO"

\* lines 95-105, the fetch raised: logged, continue
PollRaised ==
    /\ pc = "sleeping"
    /\ MockedRaise(script, fetches + 1)
    /\ fetchRaised' = TRUE
    /\ UNCHANGED <<allMiss, statusRecords, trackedRunning, backendPhase>>
    /\ UNCHANGED <<handlerVars, harnessVars>>
    /\ elapsed' = Advance(elapsed)
    /\ fetches' = fetches + 1
    /\ pc' = "loop"
    /\ allPending' = FALSE
    /\ noMiss' = FALSE
    /\ UNCHANGED <<prompt, submitted, resp, last_status, notification_sent, status_resp,
                   result, returnSite, escaped, raisedAt, sleeps, slowCalls, sendFailures,
                   timeoutCalls, prev>>

\* lines 95-125, the fetch answered: from the wake-up to the next await or return
Poll ==
    /\ pc = "sleeping"
    /\ UNCHANGED <<handlerVars, harnessVars>>
    /\ elapsed' = Advance(elapsed)
    /\ fetches' = fetches + 1
    /\ fetchRaised' = FALSE
    /\ \E r \in MockedAnswers(script, fetches + 1) :
        /\ status_resp' = r
        /\ allPending' = (allPending /\ r.status_code = HTTP_OK /\ r.task_status = "PENDING")
        /\ noMiss' = (noMiss /\ r.status_code = HTTP_OK /\ r.output # Absent)
        /\ allMiss' = (allMiss /\ r.status_code # HTTP_OK)
        /\ backendPhase' = NextPhase(backendPhase, r)
        /\ IF r.status_code # HTTP_OK
           THEN /\ pc' = "loop"
                /\ UNCHANGED <<last_status, result, returnSite, escaped, raisedAt, slowCalls,
                               statusRecords, trackedRunning>>
           ELSE IF r.output = Absent
           THEN /\ RaiseOuter("Exception", "task_status")
                /\ UNCHANGED <<last_status, slowCalls, statusRecords, trackedRunning>>
           ELSE /\ last_status' = TaskStatus(r)
                /\ statusRecords' =
                        IF StatusChanged(TaskStatus(r), last_status) /\ InfoEnabled(logLevel)
                        THEN statusRecords + 1
                        ELSE statusRecords
                /\ trackedRunning' = (trackedRunning \/ TaskStatus(r) = "RUNNING")
                /\ IF ShouldNotify(elapsed', notification_sent, TaskStatus(r))
                   THEN /\ pc' = "notifying"
                        /\ slowCalls' = slowCalls + 1
                        /\ UNCHANGED <<result, returnSite, escaped, raisedAt>>
                   ELSE /\ TerminalCheck(r)
                        /\ UNCHANGED slowCalls
    /\ UNCHANGED <<prompt, submitted, resp, notification_sent, sleeps, sendFailures,
                   timeoutCalls, prev>>

\* lines 115-116: the slow-queue reply_text returned
NotifySent ==
    /\ pc = "notifying"
    /\ UNCHANGED <<handlerVars, harnessVars, pollObs>>
    /\ notification_sent' = TRUE
    /\ TerminalCheck(status_resp)
    /\ UNCHANGED <<prompt, submitted, resp, elapsed, last_status, status_resp, sleeps,
                   fetches, slowCalls, sendFailures, timeoutCalls, allPending, noMiss, prev>>

\* lines 117-118: the slow-queue reply_text raised; except: pass
NotifyFailed ==
    /\ pc = "notifying"
    /\ UNCHANGED <<handlerVars, harnessVars, pollObs>>
    /\ sendFailures < MaxSendFailures
    /\ sendFailures' = sendFailures + 1
    /\ TerminalCheck(status_resp)
    /\ UNCHANGED <<prompt, submitted, resp, elapsed, last_status, notification_sent,
                   status_resp, sleeps, fetches, slowCalls, timeoutCalls, allPending,
                   noMiss, prev>>

\* lines 93, 127-128: the loop test fails; the timeout message is sent
Timeout ==
    /\ pc = "loop"
    /\ UNCHANGED <<handlerVars, harnessVars, pollObs>>
    /\ ~LoopContinues(elapsed)
    /\ pc' = "timeout_send"
    /\ timeoutCalls' = timeoutCalls + 1
    /\ UNCHANGED <<prompt, submitted, resp, elapsed, last_status, notification_sent,
                   status_resp, result, returnSite, escaped, raisedAt, sleeps, fetches, slowCalls,
                   sendFailures, allPending, noMiss, prev>>

\* lines 128-129: the timeout reply_text returned, or raised into line 131
TimeoutSent ==
    /\ pc = "timeout_send"
    /\ UNCHANGED <<handlerVars, harnessVars, pollObs>>
    /\ \E ok \in BOOLEAN :
        IF ok THEN Return(NoneVal, RetTimeout)
        ELSE RaiseOuter("Exception", "timeout_notify")
    /\ UNCHANGED <<prompt, submitted, resp, elapsed, last_status, notification_sent,
                   status_resp, sleeps, fetches, slowCalls, sendFailures, timeoutCalls,
                   allPending, noMiss, prev>>

\* ------------------------------------------------------------------------
\* One call of generate_image_from_prompt
\* ------------------------------------------------------------------------
Prompts == {<<97>>}

NoSubmit == [raised |-> FALSE, status_code |-> 0, task_id |-> Absent]

NoRewrite == [raised |-> FALSE, status_code |-> 0, has_text |-> FALSE, text |-> <<>>]

NoAnswer == [status_code |-> 0, output |-> Absent, task_status |-> Absent, results |-> <<>>]

Fresh ==
    /\ submitted = <<>>
    /\ resp = NoSubmit
    /\ elapsed = 0
    /\ last_status = NoneVal
    /\ notification_sent = FALSE
    /\ status_resp = NoAnswer
    /\ result = Absent
    /\ returnSite = 0
    /\ escaped = FALSE
    /\ raisedAt = Absent
    /\ sleeps = 0
    /\ fetches = 0
    /\ slowCalls = 0
    /\ sendFailures = 0
    /\ timeoutCalls = 0
    /\ allPending = TRUE
    /\ noMiss = TRUE
    /\ fetchRaised = FALSE
    /\ allMiss = TRUE
    /\ statusRecords = 0
    /\ trackedRunning = FALSE
    /\ backendPhase = "fresh"

\* no mocked backend, no cancellation, no call running beside this one
NoHarness ==
    /\ script = <<>>
    /\ cancelled = FALSE
    /\ frames = <<>>
    /\ solo = <<>>
    /\ running = Absent

\* no message is being handled: the function is called on its own
NoMessage ==
    /\ raw = <<>>
    /\ text = <<>>
    /\ enhanced_prompt = <<>>
    /\ rewriteCalls = 0
    /\ rewriteAnswer = NoRewrite
    /\ replies = <<>>
    /\ handlerRaised = Absent

\* one call of generate_image_from_prompt on its own, as a caller other than
\* main() makes it: the root logger is at its default level, WARNING, and the
\* records of line 110 are dropped (SpecLog has the level that main() sets)
Init ==
    /\ pc = "submit"
    /\ prompt \in Prompts
    /\ prev = <<0, Absent>>
    /\ Fresh
    /\ NoMessage
    /\ NoHarness
    /\ logLevel = "WARNING"

Next ==
    \/ Submit
    \/ Sleep
    \/ PollRaised
    \/ Poll
    \/ NotifySent
    \/ NotifyFailed
    \/ Timeout
    \/ TimeoutSent

Spec == Init /\ [][Next]_vars

\* asyncio resumes a coroutine whose sleep or send has completed
FairSpec == Spec /\ WF_vars(Next)

\* ------------------------------------------------------------------------
\* Properties of one call of generate_image_from_prompt
\* ------------------------------------------------------------------------
\* async_call answered 200 with a task_id
SubmissionSucceeded ==
    ~resp.raised /\ resp.status_code = HTTP_OK /\ resp.task_id # Absent

\* async_call raised or answered with a non-OK status code
SubmissionFailed ==
    resp.raised \/ resp.status_code \notin {0, HTTP_OK}

\* the last answer of fetch carries a terminal status
TerminalObserved ==
    /\ status_resp.status_code = HTTP_OK
    /\ status_resp.task_status \in {"SUCCEEDED", "FAILED"}

\* C1: when every poll before the last got a non-terminal status and the last
\* poll, the Nth, got SUCCEEDED with a first result holding a url, the call
\* returns that url, a non-empty string, after exactly N fetch calls, N in 1..45.
C1_SucceededOnNthPoll ==
    (/\ pc = "done"
     /\ SubmissionSucceeded
     /\ noMiss
     /\ status_resp.task_status = "SUCCEEDED"
     /\ Len(status_resp.results) >= 1
     /\ status_resp.results[1] \in Urls)
    => /\ result = status_resp.results[1]
       /\ result \notin {"", NoneVal, Absent}
       /\ returnSite = RetUrl
       /\ fetches = sleeps
       /\ elapsed = 4 * fetches
       /\ fetches \in 1..45

C1_Witness ==
    /\ pc = "done"
    /\ noMiss
    /\ fetches = 45
    /\ Len(status_resp.results) = 2
    /\ result = "u2"
    /\ status_resp.results[2] = "u1"

\* C2: with a backend that answers PENDING to every fetch the run ends, and it
\* ends as a timeout: the timeout message was sent once, None is returned,
\* elapsed is 180 and exactly 45 fetch calls were made, never more.
C2_PendingForeverTimesOut ==
    /\ []((SubmissionSucceeded /\ allPending) => fetches <= 45 /\ elapsed <= 180)
    /\ []((SubmissionSucceeded /\ allPending /\ pc = "done")
            => /\ returnSite \in {RetTimeout, RetException}
               /\ raisedAt \in {Absent, "timeout_notify"}
               /\ timeoutCalls = 1
               /\ result = NoneVal
               /\ elapsed = 180
               /\ fetches = 45
               /\ sleeps = 45)
    /\ <>(pc = "done")

C2_Witness ==
    /\ pc = "done"
    /\ SubmissionSucceeded
    /\ allPending
    /\ returnSite = RetTimeout
    /\ fetches = 45

\* C3: with a backend that answers PENDING to every fetch the slow-queue
\* message is sent exactly once in the run, at the 8th poll (elapsed = 32),
\* the first with elapsed >= 30, and at no other poll.
C3_SlowQueueOnceAtPoll8 ==
    (SubmissionSucceeded /\ allPending)
    => /\ slowCalls <= 1
       /\ (pc = "notifying" => elapsed = 32)
       /\ (elapsed >= 32 => slowCalls = 1)

\* C4: when async_call raises or answers with a non-OK status code the call
\* has returned None at once: no fetch, no sleep, no slow-queue or timeout
\* message.
C4_SubmissionFailureReturnsAtOnce ==
    SubmissionFailed
    => /\ pc = "done"
       /\ result = NoneVal
       /\ ~escaped
       /\ fetches = 0
       /\ sleeps = 0
       /\ slowCalls = 0
       /\ timeoutCalls = 0

C4_Witness ==
    /\ pc = "done"
    /\ resp.raised
    /\ result = NoneVal

\* C6: no exception leaves generate_image_from_prompt: an error raised by
\* async_call, by the extraction of task_id, task_status or the result url, or
\* by the timeout message ends the run with the return of None; an error of
\* fetch is absorbed by the loop.
C6_NoExceptionEscapes ==
    /\ ~escaped
    /\ (pc = "done" => result \in Urls \cup {NoneVal})
    /\ (raisedAt # Absent
        => /\ pc = "done"
           /\ result = NoneVal
           /\ returnSite = RetException)

C6_Witness ==
    /\ pc = "done"
    /\ raisedAt = "timeout_notify"
    /\ result = NoneVal
    /\ ~noMiss

\* C9: in one run the slow-queue message is sent at most once, whatever the
\* backend answers and whether the send returns or raises.
C9_SlowQueueAtMostOnce == slowCalls <= 1

\* C10: once fetch has answered SUCCEEDED or FAILED the run sleeps no more,
\* fetches no more and sends no message.
C10_NothingAfterTerminal ==
    [][TerminalObserved
        => /\ sleeps' = sleeps
           /\ fetches' = fetches
           /\ slowCalls' = slowCalls
           /\ timeoutCalls' = timeoutCalls]_vars

C10_Witness ==
    /\ pc = "done"
    /\ TerminalObserved
    /\ returnSite = RetJobFailed
    /\ notification_sent
    /\ fetches < 45

\* the last poll missed or saw a status that is not terminal: its fetch
\* raised, answered with a non-OK status code, or answered with a status other
\* than SUCCEEDED and FAILED
LastPollTransient ==
    /\ fetches > 0
    /\ \/ fetchRaised
       \/ status_resp.status_code # HTTP_OK
       \/ /\ status_resp.output # Absent
          /\ TaskStatus(status_resp) \notin {"SUCCEEDED", "FAILED"}

\* C11: a poll whose fetch raises, answers with a non-OK status code or answers
\* with a status other than SUCCEEDED and FAILED never ends the run and counts
\* toward no abort: elapsed has advanced by 4 and polling goes on; after such a
\* poll the run ends only by the timeout, and when every fetch fails it ends by
\* the timeout after 45 polls.
C11_TransientPollsNeverEndTheRun ==
    /\ []((pc = "done" /\ SubmissionSucceeded /\ LastPollTransient)
            => /\ timeoutCalls = 1
               /\ fetches = 45
               /\ elapsed = 180
               /\ result = NoneVal)
    /\ []((pc = "done" /\ SubmissionSucceeded /\ allMiss)
            => /\ timeoutCalls = 1
               /\ fetches = 45
               /\ result = NoneVal)
    /\ [][(fetches' = fetches + 1 /\ LastPollTransient')
            => /\ elapsed' = elapsed + 4
               /\ pc' \in {"loop", "notifying"}
               /\ result' = Absent]_vars

C11_Witness ==
    /\ pc = "done"
    /\ SubmissionSucceeded
    /\ allMiss
    /\ fetchRaised
    /\ status_resp.status_code \in ErrorCodes
    /\ fetches = 45
    /\ returnSite = RetTimeout

\* C12: a SUCCEEDED answer with an empty results list ends the run as a job
\* failure, not by an index error raised inside the polling loop.
C12_EmptyResultsIsJobFailure ==
    (/\ pc = "done"
     /\ ~fetchRaised
     /\ status_resp.status_code = HTTP_OK
     /\ status_resp.task_status = "SUCCEEDED"
     /\ Len(status_resp.results) = 0)
    => /\ returnSite = RetJobFailed
       /\ raisedAt = Absent

\* C17: elapsed is a multiple of 4 between 0 and 180, and every poll adds
\* exactly 4 to it, whether its fetch answered or raised; nothing else moves it.
C17_ElapsedAdvancesByFour ==
    /\ [](/\ elapsed % 4 = 0
          /\ 0 <= elapsed
          /\ elapsed <= 180
          /\ elapsed = 4 * fetches)
    /\ [][IF fetches' = fetches + 1
          THEN elapsed' = elapsed + 4
          ELSE elapsed' = elapsed /\ fetches' = fetches]_vars

C17_Witness ==
    /\ elapsed = 180
    /\ fetches = 45
    /\ fetchRaised
    /\ ~noMiss
    /\ ~allMiss

\* the slow-queue send is being awaited at poll n
SlowSendAt(n) == pc = "notifying" /\ fetches = n

\* C19: the slow-queue notification is invoked only at a poll where elapsed
\* is at least 30 and the status fetched at that very poll is PENDING: never
\* at polls 1 to 7, never at a poll whose fetch failed, never for another status.
C19_SlowQueueOnlyOnLatePending ==
    /\ []((pc = "notifying")
            => /\ elapsed >= 30
               /\ fetches >= 8
               /\ ~fetchRaised
               /\ status_resp.status_code = HTTP_OK
               /\ status_resp.output # Absent
               /\ status_resp.task_status = "PENDING")
    /\ [][(slowCalls' # slowCalls)
            => /\ slowCalls' = slowCalls + 1
               /\ fetches' = fetches + 1
               /\ pc' = "notifying"]_vars

C19_Witness ==
    /\ SlowSendAt(9)
    /\ slowCalls = 1
    /\ ~allPending

\* the poll just made was answered with SUCCEEDED or FAILED
TerminalAnswered == ~fetchRaised /\ TerminalObserved

\* C20: a terminal status fetched at the final poll (elapsed 180) wins over
\* the timeout: the run returns the url or the job failure and sends no timeout
\* notification; the timeout notification is sent only in runs where no fetch
\* returned a terminal status.
C20_TerminalBeatsTimeout ==
    /\ [][(fetches' = fetches + 1 /\ TerminalAnswered')
            => /\ pc' = "done"
               /\ timeoutCalls' = 0
               /\ returnSite' # RetTimeout
               /\ (status_resp'.task_status = "FAILED"
                     => returnSite' = RetJobFailed /\ result' = NoneVal)
               /\ (status_resp'.task_status = "SUCCEEDED" /\ raisedAt' = Absent
                     => returnSite' = RetUrl /\ result' = status_resp'.results[1])]_vars
    /\ [](timeoutCalls >= 1 => ~TerminalAnswered)
    /\ [](pc = "done" /\ TerminalAnswered => timeoutCalls = 0)

C20_Witness ==
    /\ pc = "done"
    /\ elapsed = 180
    /\ TerminalAnswered
    /\ status_resp.task_status = "SUCCEEDED"
    /\ returnSite = RetUrl
    /\ result = "u2"
    /\ timeoutCalls = 0

\* the poll just made was answered with a status payload
StatusAnswered ==
    /\ ~fetchRaised
    /\ status_resp.status_code = HTTP_OK
    /\ status_resp.output # Absent

\* C18 as stated: once the tracked status has been RUNNING it is never PENDING
\* again in the same run, whatever statuses the backend returns.
C18_TrackedStatusMonotone ==
    trackedRunning => last_status # "PENDING"

\* C18, amended: last_status repeats the status of the most recent answered
\* poll and changes at no other step, so it is PENDING after RUNNING exactly
\* in the runs where the backend answered PENDING after RUNNING.
C18_TrackedStatusMirrorsBackend ==
    /\ [][(fetches' = fetches + 1 /\ StatusAnswered')
            => last_status' = (IF status_resp'.task_status = Absent
                               THEN "UNKNOWN" ELSE status_resp'.task_status)]_vars
    /\ [][(last_status' # last_status)
            => (fetches' = fetches + 1 /\ StatusAnswered')]_vars
    /\ []((trackedRunning /\ last_status = "PENDING") => backendPhase = "regressed")
    /\ []((backendPhase # "regressed" /\ trackedRunning)
            => last_status \in (Statuses \cup {"UNKNOWN"}) \ {"PENDING"})

C18_Witness ==
    /\ trackedRunning
    /\ last_status = "PENDING"
    /\ backendPhase = "regressed"
    /\ fetches >= 2

\* ------------------------------------------------------------------------
\* One call against a mocked backend, with the logging that main() configures
\* ------------------------------------------------------------------------

MaxScript == 4

Scripts == SeqsUpTo(Statuses \cup {RaiseMark}, MaxScript) \ {<<>>}

InitLog ==
    /\ pc = "submit"
    /\ prompt \in Prompts
    /\ prev = <<0, Absent>>
    /\ Fresh
    /\ NoMessage
    /\ script \in Scripts
    /\ logLevel = "INFO"
    /\ cancelled = FALSE
    /\ frames = <<>>
    /\ solo = <<>>
    /\ running = Absent

SpecLog == InitLog /\ [][Next]_vars

\* the statuses fetched by the first n polls of a script, in order
RECURSIVE Fetched(_, _)
Fetched(sc, n) ==
    IF n = 0 THEN <<>>
    ELSE IF ScriptEntry(sc, n) = RaiseMark THEN Fetched(sc, n - 1)
    ELSE Append(Fetched(sc, n - 1), ScriptEntry(sc, n))

\* the places of a status sequence where the status differs from the one before
Transitions(f) == Cardinality({i \in 2..Len(f) : f[i] # f[i - 1]})

\* C13 as stated: the number of status transitions recorded is the number of
\* polls whose fetched status differs from the previously fetched status, the
\* first observation not counting; two for PENDING, PENDING, RUNNING, SUCCEEDED.
C13_RecordsAreTransitions ==
    statusRecords = Transitions(Fetched(script, fetches))

\* C13, amended: with the logging of main(), the polling loop records the first
\* fetched status and every later fetched status that differs from the one
\* fetched before it: one record more than there are transitions, three for
\* PENDING, PENDING, RUNNING, SUCCEEDED.
C13_RecordsAreFirstPlusTransitions ==
    LET f == Fetched(script, fetches) IN
    /\ statusRecords = (IF Len(f) = 0 THEN 0 ELSE 1 + Transitions(f))
    /\ (script = <<"PENDING", "PENDING", "RUNNING", "SUCCEEDED">> /\ pc = "done"
            /\ SubmissionSucceeded)
        => statusRecords = 3

C13_Witness ==
    /\ script = <<"PENDING", "PENDING", "RUNNING", "SUCCEEDED">>
    /\ pc = "done"
    /\ returnSite = RetUrl
    /\ fetches = 4
    /\ statusRecords = 3

\* ------------------------------------------------------------------------
\* One call whose task is cancelled while it is suspended
\* ------------------------------------------------------------------------

\* the bare except: of line 117 catches every class, CancelledError included
InnerCatches(cls) == TRUE

\* the task is cancelled during await asyncio.sleep (line 94): CancelledError
\* is raised there, inside the try of line 72 and outside the inner handlers
CancelAtSleep ==
    /\ pc = "sleeping"
    /\ ~cancelled
    /\ cancelled' = TRUE
    /\ RaiseOuter("CancelledError", "sleep")
    /\ UNCHANGED <<handlerVars, pollObs, script, logLevel, frames, solo, running>>
    /\ UNCHANGED <<prompt, submitted, resp, elapsed, last_status, notification_sent,
                   status_resp, sleeps, fetches, slowCalls, sendFailures, timeoutCalls,
                   allPending, noMiss, prev>>

\* the task is cancelled during the slow-queue reply_text (line 115), inside
\* the try of line 114: the handler of line 117 decides, then lines 120-125 run
CancelAtNotify ==
    /\ pc = "notifying"
    /\ ~cancelled
    /\ cancelled' = TRUE
    /\ IF InnerCatches("CancelledError")
       THEN TerminalCheck(status_resp)
       ELSE RaiseOuter("CancelledError", "slow_notify")
    /\ UNCHANGED <<handlerVars, pollObs, script, logLevel, frames, solo, running>>
    /\ UNCHANGED <<prompt, submitted, resp, elapsed, last_status, notification_sent,
                   status_resp, sleeps, fetches, slowCalls, sendFailures, timeoutCalls,
                   allPending, noMiss, prev>>

\* the task is cancelled during the timeout reply_text (line 128)
CancelAtTimeoutSend ==
    /\ pc = "timeout_send"
    /\ ~cancelled
    /\ cancelled' = TRUE
    /\ RaiseOuter("CancelledError", "timeout_notify")
    /\ UNCHANGED <<handlerVars, pollObs, script, logLevel, frames, solo, running>>
    /\ UNCHANGED <<prompt, submitted, resp, elapsed, last_status, notification_sent,
                   status_resp, sleeps, fetches, slowCalls, sendFailures, timeoutCalls,
                   allPending, noMiss, prev>>

NextCancel ==
    \/ Next
    \/ CancelAtSleep
    \/ CancelAtNotify
    \/ CancelAtTimeoutSend

SpecCancel == Init /\ [][NextCancel]_vars

\* C14: once a cancellation has been delivered at a suspension point of the
\* poller (the sleep, the slow-queue send or the timeout send), the poller
\* schedules no further sleep and performs no further fetch.
C14_NoSleepOrFetchAfterCancel ==
    [][cancelled => (sleeps' = sleeps /\ fetches' = fetches)]_vars

\* ------------------------------------------------------------------------
\* One call whose slow-queue send never completes
\* ------------------------------------------------------------------------

\* await update.message.reply_text (line 115) has no timeout and is not run as
\* a task of its own: while the send does not complete the coroutine stays there
NotifyBlocks ==
    /\ pc = "notifying"
    /\ pc' = "blocked"
    /\ UNCHANGED <<handlerVars, harnessVars, pollObs>>
    /\ UNCHANGED <<prompt, submitted, resp, elapsed, last_status, notification_sent,
                   status_resp, result, returnSite, escaped, raisedAt, sleeps, fetches,
                   slowCalls, sendFailures, timeoutCalls, allPending, noMiss, prev>>

NextBlocked ==
    \/ Next
    \/ NotifyBlocks

SpecBlocked == Init /\ [][NextBlocked]_vars

\* C15: a slow-queue send that never completes does not stall polling: the
\* poller can still take a step (a later sleep, fetch or return) while the
\* send is stuck.
C15_BlockedSendDoesNotStall ==
    (pc = "blocked") => ENABLED Next

\* ------------------------------------------------------------------------
\* Two calls of generate_image_from_prompt in flight on one event loop
\* ------------------------------------------------------------------------

\* the two handle_message coroutines, each awaiting its own call (line 162)
Requests == {"A", "B"}

\* every poller's variables kept in one place
Cell_Shared(p) == "A"

\* where the variables of request p's poller live: task_id, elapsed,
\* last_status and notification_sent are locals of the coroutine's own frame
\* (lines 84-91); the function assigns no global and no attribute
Cell(p) == p

\* the frame after a successful submission (lines 84-91)
Locals0 ==
    [pc |-> "loop", elapsed |-> 0, last_status |-> NoneVal,
     notification_sent |-> FALSE, result |-> Absent]

\* what the backend or the chat can hand to a poller suspended at f.pc
ConcAnswers == {RaiseMark, "PENDING", "SUCCEEDED", "FAILED"}

Events(f) ==
    CASE f.pc = "loop" -> {"tick"}
      [] f.pc = "sleeping" -> ConcAnswers
      [] f.pc = "notifying" -> {"sent", "failed"}
      [] f.pc = "timeout_send" -> {"sent"}
      [] OTHER -> {}

\* lines 93-129 on one frame: the frame after the poller resumed with input a
StepFrame(f, a) ==
    CASE f.pc = "loop" ->
            [f EXCEPT !.pc = IF LoopContinues(f.elapsed) THEN "sleeping" ELSE "timeout_send"]
      [] f.pc = "sleeping" /\ a = RaiseMark ->
            [f EXCEPT !.pc = "loop", !.elapsed = Advance(f.elapsed)]
      [] f.pc = "sleeping" /\ a # RaiseMark ->
            LET e == Advance(f.elapsed) IN
            [f EXCEPT !.elapsed = e,
                      !.last_status = a,
                      !.pc = IF ShouldNotify(e, f.notification_sent, a) THEN "notifying"
                             ELSE IF IsSucceeded(a) \/ IsFailed(a) THEN "done"
                             ELSE "loop",
                      !.result = IF IsSucceeded(a) THEN ResultUrl(ScriptedAnswer(a))
                                 ELSE IF IsFailed(a) THEN FailedValue(ScriptedAnswer(a))
                                 ELSE f.result]
      [] f.pc = "notifying" ->
            [f EXCEPT !.pc = "loop",
                      !.notification_sent = (a = "sent")]
      [] f.pc = "timeout_send" ->
            [f EXCEPT !.pc = "done", !.result = NoneVal]
      [] OTHER -> f

\* the event loop resumes the poller of request p with the input a of its own
\* backend job or chat
Resume(p) ==
    /\ running # Absent
    /\ \E a \in Events(frames[Cell(p)]) :
        /\ frames' = [frames EXCEPT ![Cell(p)] = StepFrame(frames[Cell(p)], a)]
        /\ solo' = [solo EXCEPT ![p] = StepFrame(solo[p], a)]
    /\ running' = p
    /\ UNCHANGED <<handlerVars, pollObs, script, logLevel, cancelled>>
    /\ UNCHANGED <<pc, prompt, submitted, resp, elapsed, last_status, notification_sent,
                   status_resp, result, returnSite, escaped, raisedAt, sleeps, fetches,
                   slowCalls, sendFailures, timeoutCalls, allPending, noMiss, prev>>

InitConcurrent ==
    /\ pc = "submit"
    /\ prompt \in Prompts
    /\ prev = <<0, Absent>>
    /\ Fresh
    /\ NoMessage
    /\ script = <<>>
    /\ logLevel = "INFO"
    /\ cancelled = FALSE
    /\ frames = [p \in Requests |-> Locals0]
    /\ solo = [p \in Requests |-> Locals0]
    /\ running = "none"

NextConcurrent == \E p \in Requests : Resume(p)

SpecConcurrent == InitConcurrent /\ [][NextConcurrent]_vars

\* C16: with two requests polled concurrently, under every interleaving each
\* poller's elapsed, last status, notification flag and outcome are those of
\* the same poller run alone on its own responses, and a step of one poller
\* changes nothing of the other.
C16_PollersIndependent ==
    /\ [](\A p \in Requests : frames[p] = solo[p])
    /\ [][\A q \in Requests : (q # running') => (frames'[q] = frames[q])]_vars

C16_Witness ==
    /\ running = "A"
    /\ frames["A"].pc = "done"
    /\ frames["A"].result = "u1"
    /\ frames["A"].elapsed = 36
    /\ frames["A"].notification_sent
    /\ frames["B"].pc = "sleeping"
    /\ frames["B"].elapsed = 8
    /\ frames["B"].last_status = NoneVal

\* ------------------------------------------------------------------------
\* Calls of generate_image_from_prompt one after the other
\* ------------------------------------------------------------------------
\* line 162, for the next message: the outcome of the call that has ended is
\* kept in prev and the function is called again
NewRequest ==
    /\ pc = "done"
    /\ prev' = <<returnSite, result>>
    /\ pc' = "submit"
    /\ prompt' \in Prompts
    /\ submitted' = <<>>
    /\ resp' = NoSubmit
    /\ elapsed' = 0
    /\ last_status' = NoneVal
    /\ notification_sent' = FALSE
    /\ status_resp' = NoAnswer
    /\ result' = Absent
    /\ returnSite' = 0
    /\ escaped' = FALSE
    /\ raisedAt' = Absent
    /\ sleeps' = 0
    /\ fetches' = 0
    /\ slowCalls' = 0
    /\ sendFailures' = 0
    /\ timeoutCalls' = 0
    /\ allPending' = TRUE
    /\ noMiss' = TRUE
    /\ fetchRaised' = FALSE
    /\ allMiss' = TRUE
    /\ statusRecords' = 0
    /\ trackedRunning' = FALSE
    /\ backendPhase' = "fresh"
    /\ UNCHANGED <<handlerVars, harnessVars>>

NextSeq ==
    \/ Next
    \/ NewRequest

SpecSeq == Init /\ [][NextSeq]_vars

\* the four outcomes the design names, by the return statement taken: an
\* exception caught at line 131 counts as a submission failure
OutcomeKind(site) ==
    CASE site = RetUrl -> "image URL"
      [] site = RetJobFailed -> "job failure"
      [] site = RetTimeout -> "timeout"
      [] OTHER -> "submission failure"

Whitespace ==
    {9, 10, 11, 12, 13, 28, 29, 30, 31, 32, 133, 160, 5760, 8232, 8233, 8239, 8287, 12288}
    \cup (8192..8202)

RECURSIVE LStrip(_)
LStrip(s) ==
    IF s = <<>> THEN s
    ELSE IF Head(s) \in Whitespace THEN LStrip(Tail(s))
    ELSE s

RECURSIVE RStrip(_)
RStrip(s) ==
    IF s = <<>> THEN s
    ELSE IF s[Len(s)] \in Whitespace THEN RStrip(SubSeq(s, 1, Len(s) - 1))
    ELSE s

\* str.strip()
Strip(s) == RStrip(LStrip(s))

\* str.replace(old, ''), old a single code point
RECURSIVE Remove(_, _)
Remove(s, old) ==
    IF s = <<>> THEN s
    ELSE IF Head(s) = old THEN Remove(Tail(s), old)
    ELSE <<Head(s)>> \o Remove(Tail(s), old)

\* str.startswith(prefix), prefix a single code point
StartsWith(s, c) == Len(s) >= 1 /\ s[1] = c

\* sub in s
Contains(s, sub) ==
    \E i \in 0..(Len(s) - Len(sub)) : SubSeq(s, i + 1, i + Len(sub)) = sub

\* ------------------------------------------------------------------------
\* is_chinese
\* ------------------------------------------------------------------------
CJK_FIRST == 19968
CJK_LAST == 40959

\* the range test with the last code point of the block left out
InCJKBlock_Exclusive(char) == CJK_FIRST <= char /\ char < CJK_LAST

\* '\u4e00' <= char <= '\u9fff' (line 33)
InCJKBlock(char) == CJK_FIRST <= char /\ char <= CJK_LAST

\* lines 30-35: the loop over the characters of text
RECURSIVE is_chinese(_)
is_chinese(t) ==
    IF t = <<>> THEN FALSE
    ELSE IF InCJKBlock(Head(t)) THEN TRUE
    ELSE is_chinese(Tail(t))

\* ------------------------------------------------------------------------
\* rewrite_prompt_with_qwen
\* ------------------------------------------------------------------------
QUOTE == 34
SLASH == 47

\* the fallback prompts of lines 65 and 68, around the user's phrase
NonOkPrefix == <<25104, 37117, 22330, 26223, 20013, 65292, 20154, 20204, 27491, 22312, 20307,
                 39564, 39>>
NonOkSuffix == <<39, 65292, 30495, 23454, 29983, 27963, 65292, 32454, 33410, 20016, 23500>>
ExceptPrefix == <<25104, 37117, 34903, 22836, 65292, 24180, 36731, 20154, 27491, 22312, 20307,
                  29616, 39>>
ExceptSuffix == <<39, 30340, 27010, 24565, 65292, 33258, 28982, 20809, 32447, 65292, 26085,
                  24120, 29615, 22659>>

\* line 65
NonOkFallback(user_phrase) == NonOkPrefix \o user_phrase \o NonOkSuffix

\* line 68 written as a plain string instead of an f-string
ExceptFallback_Plain(user_phrase) == ExceptPrefix \o ExceptSuffix

\* line 68
ExceptFallback(user_phrase) == ExceptPrefix \o user_phrase \o ExceptSuffix

\* texts the completion service may answer with
RemoteTexts ==
    {<<25104, 37117, 33590, 39302>>,
     <<32, QUOTE, 33590, 39302, QUOTE, 10>>,
     <<QUOTE, 33590, QUOTE, 39302>>}

\* what Generation.call can do: raise, answer with a non-200 code, answer 200
\* with an output that lacks 'text', or answer 200 with a text
RewriteAnswers ==
    {[raised |-> TRUE, status_code |-> 0, has_text |-> FALSE, text |-> <<>>],
     [raised |-> FALSE, status_code |-> HTTP_OK, has_text |-> FALSE, text |-> <<>>]}
    \cup {[raised |-> FALSE, status_code |-> c, has_text |-> FALSE, text |-> <<>>] :
            c \in ErrorCodes}
    \cup {[raised |-> FALSE, status_code |-> HTTP_OK, has_text |-> TRUE, text |-> t] :
            t \in RemoteTexts}

\* stands for an exception leaving rewrite_prompt_with_qwen: no string
Raised == <<-1>>

\* the try block closed before line 60, around the remote call alone
RewriteCatches_CallOnly(site) == site = "call"

\* except Exception (line 66), around the call and the reading of the answer
RewriteCatches(site) == site \in {"call", "text"}

\* an exception raised at `site` inside rewrite_prompt_with_qwen
RewriteRaise(user_phrase, site) ==
    IF RewriteCatches(site) THEN ExceptFallback(user_phrase) ELSE Raised

\* lines 52-68: the value rewrite_prompt_with_qwen returns on the answer a
rewrite_prompt_with_qwen(user_phrase, a) ==
    IF a.raised THEN RewriteRaise(user_phrase, "call")
    ELSE IF a.status_code = HTTP_OK
    THEN IF ~a.has_text THEN RewriteRaise(user_phrase, "text")
         ELSE Remove(Remove(Remove(Strip(a.text), QUOTE), QUOTE), QUOTE)
    ELSE NonOkFallback(user_phrase)

\* ------------------------------------------------------------------------
\* handle_message, up to the call of generate_image_from_prompt
\* ------------------------------------------------------------------------
\* code points of incoming messages: space, '/', 'a', and the code points at
\* and next to the two ends of the CJK Unified Ideographs block
MessageChars == {32, SLASH, 97, 19967, 19968, 40959, 40960}

Messages == SeqsUpTo(MessageChars, MaxTextLen) \ {<<>>}

\* not text or text.startswith('/') (line 146)
Ignored(t) == t = <<>> \/ StartsWith(t, SLASH)

\* lines 145-160 without the rewriting: strip the text, return on an empty
\* text or a command, announce the work with reply_text (which may raise) and
\* take the text itself as the prompt when it is not Chinese
Receive ==
    /\ pc = "recv"
    /\ UNCHANGED <<harnessVars, pollObs>>
    /\ text' = Strip(raw)
    /\ IF Ignored(text')
       THEN /\ pc' = "finished"
            /\ UNCHANGED <<enhanced_prompt, prompt, replies, handlerRaised>>
       ELSE \E sent \in BOOLEAN :
            IF ~sent
            THEN /\ pc' = "finished"
                 /\ handlerRaised' = "reply_text"
                 /\ UNCHANGED <<enhanced_prompt, prompt, replies>>
            ELSE IF is_chinese(text')
            THEN /\ pc' = "rewrite"
                 /\ replies' = Append(replies, "understanding")
                 /\ UNCHANGED <<enhanced_prompt, prompt, handlerRaised>>
            ELSE /\ pc' = "submit"
                 /\ replies' = Append(replies, "generating")
                 /\ enhanced_prompt' = text'
                 /\ prompt' = text'
                 /\ UNCHANGED handlerRaised
    /\ UNCHANGED <<submitted, resp, elapsed, last_status, notification_sent, status_resp,
                   result, returnSite, escaped, raisedAt, sleeps, fetches, slowCalls,
                   sendFailures, timeoutCalls, allPending, noMiss, prev, raw,
                   rewriteCalls, rewriteAnswer>>

\* lines 153-155: the call of rewrite_prompt_with_qwen with its one remote
\* call, then the second reply_text (which may raise)
Rewrite ==
    /\ pc = "rewrite"
    /\ UNCHANGED <<harnessVars, pollObs>>
    /\ rewriteCalls' = rewriteCalls + 1
    /\ \E a \in RewriteAnswers :
        /\ rewriteAnswer' = a
        /\ enhanced_prompt' = rewrite_prompt_with_qwen(text, a)
    /\ \E sent \in BOOLEAN :
        IF enhanced_prompt' = Raised
        THEN /\ pc' = "finished"
             /\ handlerRaised' = "rewrite_prompt_with_qwen"
             /\ UNCHANGED <<prompt, replies>>
        ELSE IF sent
        THEN /\ pc' = "submit"
             /\ replies' = Append(replies, "generating")
             /\ prompt' = enhanced_prompt'
             /\ UNCHANGED handlerRaised
        ELSE /\ pc' = "finished"
             /\ handlerRaised' = "reply_text"
             /\ UNCHANGED <<prompt, replies>>
    /\ UNCHANGED <<submitted, resp, elapsed, last_status, notification_sent, status_resp,
                   result, returnSite, escaped, raisedAt, sleeps, fetches, slowCalls,
                   sendFailures, timeoutCalls, allPending, noMiss, prev, raw, text>>

InitMessage ==
    /\ pc = "recv"
    /\ raw \in Messages
    /\ prompt = <<>>
    /\ prev = <<0, Absent>>
    /\ Fresh
    /\ text = <<>>
    /\ enhanced_prompt = <<>>
    /\ rewriteCalls = 0
    /\ rewriteAnswer = NoRewrite
    /\ replies = <<>>
    /\ handlerRaised = Absent
    /\ NoHarness
    /\ logLevel = "INFO"

NextMessage ==
    \/ Receive
    \/ Rewrite
    \/ Submit

\* a message from its receipt to the submission of the job
SpecMessage == InitMessage /\ [][NextMessage]_vars

\* the remote rewriting failed: the call raised, answered with a non-OK
\* status code, or answered without a text
RewriteFailed ==
    /\ rewriteCalls > 0
    /\ \/ rewriteAnswer.raised
       \/ rewriteAnswer.status_code # HTTP_OK
       \/ ~rewriteAnswer.has_text

\* C7: rewrite_prompt_with_qwen never raises; when the remote call raised,
\* answered with a non-OK status code or answered with a malformed body, it
\* returns a fallback prompt that contains the user's phrase.
C7_FallbackContainsPhrase ==
    /\ handlerRaised # "rewrite_prompt_with_qwen"
    /\ enhanced_prompt # Raised
    /\ (RewriteFailed
        => /\ Contains(enhanced_prompt, text)
           /\ Len(enhanced_prompt) > Len(text))

C7_Witness ==
    /\ pc = "submit"
    /\ rewriteAnswer.status_code = HTTP_OK
    /\ ~rewriteAnswer.has_text
    /\ Len(text) = 2
    /\ Contains(prompt, text)

\* the text has a code point in U+4E00..U+9FFF
HasCJK(t) == \E i \in 1..Len(t) : t[i] \in 19968..40959

\* C8: a text without a code point in U+4E00..U+9FFF reaches the image
\* submission unchanged and without a remote completion call, so the prompt is
\* a function of the text alone; for a text with such a code point exactly one
\* remote completion call is made before the submission.
C8_PassthroughOrOneRewrite ==
    /\ (~HasCJK(text) => rewriteCalls = 0 /\ pc # "rewrite")
    /\ (Len(submitted) > 0
        => /\ Len(submitted) = 1
           /\ ~Ignored(text)
           /\ IF HasCJK(text)
              THEN rewriteCalls = 1
              ELSE submitted[1] = text /\ rewriteCalls = 0)
    /\ rewriteCalls <= 1

C8_Witness ==
    /\ Len(submitted) = 1
    /\ submitted[1] = <<97, 40960>>
    /\ text = <<97, 40960>>
    /\ rewriteCalls = 0

====
